---------------------------- MODULE Spec2Model ----------------------------
(***************************************************************************)
(* Hadith-App backend (FastAPI routers over a relational store).           *)
(*                                                                         *)
(* The store is the shared mutable resource; every `await database.*` of a *)
(* handler is one step: the statement is evaluated on the store as it is   *)
(* at that moment (the `databases` connection autocommits each statement)  *)
(* and the handler runs on to its next await.  Handlers of different       *)
(* requests interleave at these awaits (one asyncio event loop).           *)
(*                                                                         *)
(* Identifiers (hadith, collection, chapter ids) are strings in the code;  *)
(* here they are integers, which keeps their order for ORDER BY.           *)
(* A query is given its relational meaning (join, filter, order,           *)
(* limit/offset); how a particular SQL dialect renders it is not modelled. *)
(* Texts (narrator, english_text, names, titles) are numbered entries of a *)
(* small dictionary; emails and passwords are numbers.                     *)
(*                                                                         *)
(* src/simple_server.py is a second, stand-alone server over an sqlite     *)
(* file; its handlers do not await and a request is a single step.         *)
(***************************************************************************)
EXTENDS Integers, Sequences, FiniteSets, TLC

(* ------------------------------ bounds -------------------------------- *)
NumHadiths == 4
NumCollections == 2
NumUsers == 2
NumReq == 2
MaxFavId == 3
NumFavHadiths == 1
MaxPage == 3
MaxSmallPageSize == 2
NumDates == 2
RngModulus == 8
NumEmails == 2
NumPasswords == 2

(* ------------------------- program constants -------------------------- *)
MaxPageSizeParam == 100
FirstYear == 2024
FirstMonth == 1
FirstDayOfMonth == 15
Anonymous == 0
None == 0
NoSuchId == -1

VARIABLES
    hadiths,      \* rows of hadiths_table (read-only at request time)
    users,        \* rows of users_table
    favorites,    \* rows of favorites_table
    next_fav_id,  \* the autoincrement sequence of favorites.id
    rng,          \* state of the process-wide generator of module `random`
    seeded_by,    \* history: the date whose ordinal last seeded it; NoDate while
                  \* it runs from the entropy the process started with
    req,          \* per request slot: handler, position, inputs, locals
    out,          \* the request the last step ended, with the response sent for it
    mon,          \* history: per (user, hadith), progress of two toggles in a row
    scan,         \* history: pages 1, 2, ... of one listing, concatenated
    acks,         \* history: per (user, hadith), whether an odd number of toggles
                  \* has returned its acknowledgment (created or removed)
    daily         \* history: per date, the hadith ids daily picks have returned

vars == <<hadiths, users, favorites, next_fav_id, rng, seeded_by, req, out, mon, scan,
          acks, daily>>

Reqs == 1..NumReq
Users == 1..NumUsers
CollectionIds == 1..NumCollections

(* ------------------------------ data set ------------------------------ *)
\* HadithGrade
Grades == {"Sahih", "Hasan", "Da'if", "Mawdu'", "Unknown"}

GradeCycle == <<"Sahih", "Sahih", "Hasan", "Sahih", "Da'if">>

\* Row i of the imported table.  (collection_id, hadith_number) is unique;
\* the same hadith_number occurs once in every collection.
HadithRow(i) ==
    LET c == ((i - 1) % NumCollections) + 1
        n == ((i - 1) \div NumCollections) + 1
    IN  [id |-> i, collection_id |-> c, chapter_id |-> 10 * c + ((n - 1) % 2) + 1,
         hadith_number |-> n, grade |-> GradeCycle[((i - 1) % 5) + 1],
         narrator |-> ((i - 1) % 3) + 1, english_text |-> (i % 4) + 1,
         arabic_text |-> 4]

HadithTable == {HadithRow(i) : i \in 1..NumHadiths}

\* The texts the tables hold are numbered in alphabetical order; Spelling
\* gives the characters of a text.
Dictionary == << <<"a">>, <<"A", "b">>, <<"b">>, <<"c">> >>

Spelling(t) == Dictionary[t]

\* collections_table: id and name_en (the ORDER BY key of get_collections).
CollectionTable == {[id |-> c, name_en |-> c] : c \in CollectionIds}

\* chapters_table: two chapters per collection, (collection_id, chapter_number) unique.
ChapterTable ==
    {[id |-> 10 * c + k, collection_id |-> c, chapter_number |-> k, title_en |-> 2 + k] :
        c \in CollectionIds, k \in 1..2}

\* The data sets a run may start from: the hadiths of any set of collections.
DataSets == {{x \in HadithTable : x.collection_id \in C} : C \in SUBSET CollectionIds}

\* users_table rows.  Emails and passwords are numbered; the hash of a password
\* is a one-to-one function of it (get_password_hash / verify_password).
Emails == 1..NumEmails
Passwords == 1..NumPasswords

Hash(password) == password + NumPasswords

UserRow(id, email, password, is_active) ==
    [id |-> id, email |-> email, hashed_password |-> Hash(password), is_active |-> is_active]

\* The accounts of the callers 1..NumUsers, signed up before the run.
RegisteredUsers == {UserRow(u, u, 1, TRUE) : u \in Users}

Pairs == Users \X (1..NumFavHadiths)

RngStates == 0..(RngModulus - 1)

\* date_param values: YYYY-MM-DD as <<year, month, day>>; the last one is no
\* calendar date, and NoDate stands for an absent parameter.
NoDate == <<0, 0, 0>>
Dates == {<<FirstYear, FirstMonth, FirstDayOfMonth + i>> : i \in 0..(NumDates - 1)}
InvalidDate == <<FirstYear, FirstMonth + 1, 30>>
DateParams == Dates \cup {InvalidDate, NoDate}

NoDaily == [d \in Dates |-> {}]

NoAcks == [on |-> FALSE, odd |-> [p \in Pairs |-> FALSE]]

(* --------------------------- store operators -------------------------- *)
Min(S) == CHOOSE x \in S : \A y \in S : x <= y

\* ORDER BY key: every sequence of the rows of S in which key[row] never
\* decreases.  Rows with equal keys come in any order: the store promises
\* none, and may pick another one on the next evaluation.
RECURSIVE Orders(_, _)
Orders(S, key) ==
    IF S = {} THEN {<<>>}
    ELSE LET m == Min({key[x] : x \in S})
         IN  UNION {{<<x>> \o p : p \in Orders(S \ {x}, key)} :
                        x \in {y \in S : key[y] = m}}

\* .limit(limit).offset(offset) of an ordered result
Slice_NoLimit(s, offset, limit) ==
    IF offset >= Len(s) THEN <<>> ELSE SubSeq(s, offset + 1, Len(s))

Slice(s, offset, limit) ==
    IF offset >= Len(s) THEN <<>>
    ELSE SubSeq(s, offset + 1, IF offset + limit < Len(s) THEN offset + limit ELSE Len(s))

Ids(s) == [i \in 1..Len(s) |-> s[i].id]

Range(s) == {s[i] : i \in 1..Len(s)}


(* ------------------------- requests and responses --------------------- *)
NoFilter == [collection_id |-> None, chapter_id |-> None, grade |-> "",
             narrator |-> <<>>, q |-> <<>>]

NoMeta == [page |-> 0, page_size |-> 0, total_count |-> 0, total_pages |-> 0,
           has_next |-> FALSE, has_prev |-> FALSE]

NoResp == [status |-> 0, error |-> "", data |-> <<>>, is_favorite |-> <<>>,
           meta |-> NoMeta, date |-> NoDate, token |-> None, body |-> {}]

Idle == [op |-> "idle", pc |-> "idle", user |-> Anonymous, hadith |-> None, seeded |-> FALSE,
         favorite_id |-> None, date |-> NoDate, filter |-> NoFilter, page |-> 0, page_size |-> 0,
         exclude_favorites |-> FALSE, existing |-> None, total_count |-> 0,
         offset |-> 0, email |-> None, password |-> None, notes |-> None,
         path |-> <<>>, resp |-> NoResp]

Free(r) == req[r].pc = "idle"

Active(r) == ~Free(r)

\* A handler returns or raises: the response goes out and the slot is free again.
Finish(r, fields, response) ==
    /\ req' = [req EXCEPT ![r] = Idle]
    /\ out' = [fields EXCEPT !.pc = "done", !.resp = response]

\* The handler reaches its next await: the step sends no response.
Continue(r, fields) ==
    /\ req' = [req EXCEPT ![r] = fields]
    /\ out' = Idle

\* raise HTTPException(status_code, detail): no exception handler is installed,
\* the body is the framework's {"detail": detail}.  body holds the keys.
HttpError(code, detail) ==
    [NoResp EXCEPT !.status = code, !.error = detail, !.body = {"detail"}]

\* An exception no handler catches: the server answers 500.
Unhandled(exc) == [NoResp EXCEPT !.status = 500, !.error = exc]

\* a response model: BaseResponse (success = True, message) and its data
Ok(data) ==
    [NoResp EXCEPT !.status = 200, !.data = data, !.body = {"success", "message", "data"}]

(* ------------------------------ favorites ----------------------------- *)
HadithExists(h) == \E x \in hadiths : x.id = h

\* select(favorites_table).where(user_id == u, hadith_id == h): the rows
RowsOfPair(favs, u, h) == {f \in favs : f.user_id = u /\ f.hadith_id = h}

Present(u, h) == RowsOfPair(favorites, u, h) # {}

\* fetch_one of that select: a row's id, or None
ExistingId(favs, u, h) ==
    IF RowsOfPair(favs, u, h) = {} THEN None
    ELSE (CHOOSE f \in RowsOfPair(favs, u, h) : TRUE).id

\* UniqueConstraint("user_id", "hadith_id") of favorites_table
UniqueViolation_Off(favs, u, h) == FALSE

UniqueViolation(favs, u, h) == RowsOfPair(favs, u, h) # {}

\* insert(favorites_table).values(user_id, hadith_id, notes)
InsertFavorite(favs, id, u, h) ==
    favs \cup {[id |-> id, user_id |-> u, hadith_id |-> h, notes |-> None]}

\* delete(favorites_table).where(favorites_table.c.id == id)
DeleteById_Noop(favs, id) == favs

DeleteById(favs, id) == {f \in favs : f.id # id}

\* delete(favorites_table).where(user_id == u, hadith_id == h)
DeleteByPair(favs, u, h) == favs \ RowsOfPair(favs, u, h)

FavoriteWithHadith_OfAnyUser(favs, id, u) ==
    IF \E f \in favs : f.id = id /\ HadithExists(f.hadith_id)
    THEN id ELSE None

\* get_favorite_with_hadith: the row (id, user_id) joined with its hadith, or None
FavoriteWithHadith(favs, id, u) ==
    IF \E f \in favs : f.id = id /\ f.user_id = u /\ HadithExists(f.hadith_id)
    THEN id ELSE None

\* FavoriteResponse(BaseResponse): data: FavoriteWithHadith is required
FavoriteResponseValid(body) == "data" \in DOMAIN body /\ body.data # None


(* History for "two toggles one after the other": per pair, ph = 1 while a  *)
(* first toggle runs with no other favorites request on the pair, 2 once it *)
(* has ended, 3 while a second one runs, 4 once that has ended; 0 when      *)
(* another request on the pair came in between.  before = the pair's        *)
(* presence when the first toggle arrived.                                  *)
NoMon == [ph |-> 0, before |-> FALSE]

WriteOps == {"toggle_favorite", "add_favorite", "remove_favorite",
             "remove_favorite_by_hadith"}

OnPair(r, u, h) ==
    /\ Active(r)
    /\ req[r].op \in WriteOps
    /\ req[r].user = u
    /\ req[r].hadith = h \/ req[r].op = "remove_favorite"

MonToggleBegin(r, u, h) ==
    [mon EXCEPT ![<<u, h>>] =
        IF \E r2 \in Reqs \ {r} : OnPair(r2, u, h) THEN NoMon
        ELSE IF @.ph = 2 THEN [@ EXCEPT !.ph = 3]
        ELSE [ph |-> 1, before |-> Present(u, h)]]

MonToggleEnd(u, h) ==
    [mon EXCEPT ![<<u, h>>] =
        IF @.ph = 1 THEN [@ EXCEPT !.ph = 2]
        ELSE IF @.ph = 3 THEN [@ EXCEPT !.ph = 4]
        ELSE @]

\* one more toggle of (u, h) has returned its acknowledgment
Ack(u, h) ==
    IF acks.on /\ <<u, h>> \in Pairs THEN [acks EXCEPT !.odd[<<u, h>>] = ~@] ELSE acks

MonOther(u, h) ==
    IF <<u, h>> \in Pairs THEN [mon EXCEPT ![<<u, h>>] = NoMon] ELSE mon

MonOtherUser(u) == [p \in Pairs |-> IF p[1] = u THEN NoMon ELSE mon[p]]

(* toggle_favorite: POST /favorites/hadith/{hadith_id} *)
ToggleBegin(r, u, h) ==
    /\ Free(r)
    /\ LET fields == [Idle EXCEPT !.op = "toggle_favorite", !.user = u, !.hadith = h]
       IN  IF ~HadithExists(h)
           THEN /\ Finish(r, fields, HttpError(404, "Hadith not found"))
                /\ mon' = mon
           ELSE /\ Continue(r, [fields EXCEPT !.pc = "read_existing"])
                /\ mon' = MonToggleBegin(r, u, h)
    /\ UNCHANGED <<hadiths, users, acks, favorites, next_fav_id, rng, seeded_by, scan, daily>>

ToggleReadExisting(r) ==
    /\ req[r].op = "toggle_favorite" /\ req[r].pc = "read_existing"
    /\ LET existing == ExistingId(favorites, req[r].user, req[r].hadith)
       IN  Continue(r, [req[r] EXCEPT !.existing = existing,
                                    !.pc = IF existing # None THEN "delete" ELSE "insert"])
    /\ UNCHANGED <<hadiths, users, acks, favorites, next_fav_id, rng, seeded_by, mon, scan, daily>>

ToggleDelete(r) ==
    /\ req[r].op = "toggle_favorite" /\ req[r].pc = "delete"
    /\ favorites' = DeleteById(favorites, req[r].existing)
    /\ LET body == [success |-> TRUE, message |-> "Hadith removed from favorites"]
       IN  Finish(r, req[r],
                  IF FavoriteResponseValid(body)
                  THEN [Ok(<<>>) EXCEPT !.error = body.message]
                  ELSE Unhandled("ResponseValidationError"))
    /\ mon' = MonToggleEnd(req[r].user, req[r].hadith)
    /\ acks' = Ack(req[r].user, req[r].hadith)
    /\ UNCHANGED <<hadiths, users, next_fav_id, rng, seeded_by, scan, daily>>

ToggleInsert(r) ==
    /\ req[r].op = "toggle_favorite" /\ req[r].pc = "insert"
    /\ next_fav_id <= MaxFavId
    /\ next_fav_id' = next_fav_id + 1
    /\ IF UniqueViolation(favorites, req[r].user, req[r].hadith)
       THEN /\ favorites' = favorites
            /\ Finish(r, req[r], Unhandled("IntegrityError"))
            /\ mon' = MonToggleEnd(req[r].user, req[r].hadith)
       ELSE /\ favorites' = InsertFavorite(favorites, next_fav_id, req[r].user, req[r].hadith)
            /\ Continue(r, [req[r] EXCEPT !.favorite_id = next_fav_id, !.pc = "fetch_created"])
            /\ mon' = mon
    /\ UNCHANGED <<hadiths, users, acks, rng, seeded_by, scan, daily>>

ToggleFetchCreated(r) ==
    /\ req[r].op = "toggle_favorite" /\ req[r].pc = "fetch_created"
    /\ LET body == [success |-> TRUE, message |-> "Hadith added to favorites successfully",
                    data |-> FavoriteWithHadith(favorites, req[r].favorite_id, req[r].user)]
       IN  /\ Finish(r, req[r],
                     IF FavoriteResponseValid(body) THEN Ok(<<body.data>>)
                     ELSE Unhandled("ValidationError"))
           /\ acks' = IF FavoriteResponseValid(body)
                      THEN Ack(req[r].user, req[r].hadith) ELSE acks
    /\ mon' = MonToggleEnd(req[r].user, req[r].hadith)
    /\ UNCHANGED <<hadiths, users, favorites, next_fav_id, rng, seeded_by, scan, daily>>

(* add_favorite: POST /favorites/ *)
AddBegin(r, u, h) ==
    /\ Free(r)
    /\ LET fields == [Idle EXCEPT !.op = "add_favorite", !.user = u, !.hadith = h]
       IN  IF ~HadithExists(h)
           THEN Finish(r, fields, HttpError(404, "Hadith not found"))
           ELSE Continue(r, [fields EXCEPT !.pc = "read_existing"])
    /\ mon' = MonOther(u, h)
    /\ UNCHANGED <<hadiths, users, acks, favorites, next_fav_id, rng, seeded_by, scan, daily>>

AddReadExisting(r) ==
    /\ req[r].op = "add_favorite" /\ req[r].pc = "read_existing"
    /\ LET existing == ExistingId(favorites, req[r].user, req[r].hadith)
       IN  IF existing # None
           THEN Finish(r, [req[r] EXCEPT !.existing = existing],
                       HttpError(400, "Hadith already in favorites"))
           ELSE Continue(r, [req[r] EXCEPT !.pc = "insert"])
    /\ UNCHANGED <<hadiths, users, acks, favorites, next_fav_id, rng, seeded_by, mon, scan, daily>>

AddInsert(r) ==
    /\ req[r].op = "add_favorite" /\ req[r].pc = "insert"
    /\ next_fav_id <= MaxFavId
    /\ next_fav_id' = next_fav_id + 1
    /\ IF UniqueViolation(favorites, req[r].user, req[r].hadith)
       THEN /\ favorites' = favorites
            /\ Finish(r, req[r], HttpError(400, "Hadith already in favorites"))
       ELSE /\ favorites' = InsertFavorite(favorites, next_fav_id, req[r].user, req[r].hadith)
            /\ Continue(r, [req[r] EXCEPT !.favorite_id = next_fav_id, !.pc = "fetch_created"])
    /\ UNCHANGED <<hadiths, users, acks, rng, seeded_by, mon, scan, daily>>

AddFetchCreated(r) ==
    /\ req[r].op = "add_favorite" /\ req[r].pc = "fetch_created"
    /\ LET body == [success |-> TRUE, message |-> "Hadith added to favorites successfully",
                    data |-> FavoriteWithHadith(favorites, req[r].favorite_id, req[r].user)]
       IN  Finish(r, req[r],
                  IF FavoriteResponseValid(body) THEN Ok(<<body.data>>)
                  ELSE Unhandled("ValidationError"))
    /\ UNCHANGED <<hadiths, users, acks, favorites, next_fav_id, rng, seeded_by, mon, scan, daily>>

(* remove_favorite: DELETE /favorites/{favorite_id} *)
RemoveBegin(r, u, fid) ==
    /\ Free(r)
    /\ LET fields == [Idle EXCEPT !.op = "remove_favorite", !.user = u, !.favorite_id = fid]
       IN  IF ~\E f \in favorites : f.id = fid /\ f.user_id = u
           THEN Finish(r, fields, HttpError(404, "Favorite not found"))
           ELSE Continue(r, [fields EXCEPT !.existing = fid, !.pc = "delete"])
    /\ mon' = MonOtherUser(u)
    /\ UNCHANGED <<hadiths, users, acks, favorites, next_fav_id, rng, seeded_by, scan, daily>>

RemoveDelete(r) ==
    /\ req[r].op = "remove_favorite" /\ req[r].pc = "delete"
    /\ favorites' = DeleteById(favorites, req[r].favorite_id)
    /\ Finish(r, req[r], [Ok(<<>>) EXCEPT !.error = "Favorite removed successfully"])
    /\ UNCHANGED <<hadiths, users, acks, next_fav_id, rng, seeded_by, mon, scan, daily>>

(* remove_favorite_by_hadith: DELETE /favorites/hadith/{hadith_id} *)
RemoveByHadithBegin(r, u, h) ==
    /\ Free(r)
    /\ LET fields == [Idle EXCEPT !.op = "remove_favorite_by_hadith", !.user = u, !.hadith = h]
           existing == ExistingId(favorites, u, h)
       IN  IF existing = None
           THEN Finish(r, fields, HttpError(404, "Hadith not in favorites"))
           ELSE Continue(r, [fields EXCEPT !.existing = existing, !.pc = "delete"])
    /\ mon' = MonOther(u, h)
    /\ UNCHANGED <<hadiths, users, acks, favorites, next_fav_id, rng, seeded_by, scan, daily>>

RemoveByHadithDelete(r) ==
    /\ req[r].op = "remove_favorite_by_hadith" /\ req[r].pc = "delete"
    /\ favorites' = DeleteByPair(favorites, req[r].user, req[r].hadith)
    /\ Finish(r, req[r], [Ok(<<>>) EXCEPT !.error = "Favorite removed successfully"])
    /\ UNCHANGED <<hadiths, users, acks, next_fav_id, rng, seeded_by, mon, scan, daily>>

(* ---------------------- specification: favorites ---------------------- *)
NoScan == [on |-> FALSE, active |-> FALSE, op |-> "", user |-> Anonymous, filter |-> NoFilter,
           page_size |-> 0, next |-> 0, acc |-> <<>>, total_count |-> 0,
           total_pages |-> 0]

FavTargets == (1..NumFavHadiths) \cup {NoSuchId}

InitFav ==
    /\ hadiths = HadithTable
    /\ users = RegisteredUsers
    /\ acks = NoAcks
    /\ favorites = {}
    /\ next_fav_id = 1
    /\ rng = 0
    /\ seeded_by = NoDate
    /\ req = [r \in Reqs |-> Idle]
    /\ out = Idle
    /\ mon = [p \in Pairs |-> NoMon]
    /\ scan = NoScan
    /\ daily = NoDaily

NextFav ==
    \E r \in Reqs :
        \/ \E u \in Users, h \in FavTargets : ToggleBegin(r, u, h)
        \/ ToggleReadExisting(r)
        \/ ToggleDelete(r)
        \/ ToggleInsert(r)
        \/ ToggleFetchCreated(r)
        \/ \E u \in Users, h \in FavTargets : AddBegin(r, u, h)
        \/ AddReadExisting(r)
        \/ AddInsert(r)
        \/ AddFetchCreated(r)
        \/ \E u \in Users, fid \in 1..MaxFavId : RemoveBegin(r, u, fid)
        \/ RemoveDelete(r)
        \/ \E u \in Users, h \in FavTargets : RemoveByHadithBegin(r, u, h)
        \/ RemoveByHadithDelete(r)

SpecFav == InitFav /\ [][NextFav]_vars


(* --------------- specification: concurrent toggles only --------------- *)
NextToggle ==
    \E r \in Reqs :
        \/ \E u \in Users, h \in FavTargets : ToggleBegin(r, u, h)
        \/ ToggleReadExisting(r)
        \/ ToggleDelete(r)
        \/ ToggleInsert(r)
        \/ ToggleFetchCreated(r)

SpecToggle == InitFav /\ [][NextToggle]_vars

(* ------------------------------- claims ------------------------------- *)
ToggleEnded ==
    out.op = "toggle_favorite" /\ out.pc = "done" /\ HadithExists(out.hadith)

\* C2: the favorites relation never holds two rows for one (user_id, hadith_id)
\* pair, whatever add, toggle and remove requests have run or are running.
C2_PairNeverDuplicated ==
    \A f1 \in favorites, f2 \in favorites :
        (f1.user_id = f2.user_id /\ f1.hadith_id = f2.hadith_id) => f1.id = f2.id

\* C2 witness: the uniqueness constraint has just refused the insert of a
\* toggle that raced with another insert for the same pair.
C2_ConstraintRefusedDuplicate ==
    /\ ToggleEnded
    /\ out.resp.error = "IntegrityError"
    /\ Present(out.user, out.hadith)

\* C3: with only toggles running, every toggle of an existing hadith ends with a
\* toggle outcome and not with a store failure nobody handles, and its pair is
\* left with at most one row.
C3_ConcurrentTogglesConverge ==
    ToggleEnded =>
        /\ out.resp.error # "IntegrityError"
        /\ Cardinality(RowsOfPair(favorites, out.user, out.hadith)) <= 1

\* C4: a toggle that no other favorites request on its pair overlaps answers
\* successfully: having found the pair Present it deletes the row and returns
\* a removal acknowledgment, having found it Absent it creates exactly one row
\* and returns it.
C4_ToggleAnswersSuccessfully ==
    (/\ ToggleEnded
     /\ <<out.user, out.hadith>> \in Pairs
     /\ mon[<<out.user, out.hadith>>].ph \in {2, 4}) =>
        /\ out.resp.status = 200
        /\ out.existing # None => ~Present(out.user, out.hadith)
        /\ out.existing = None =>
              /\ out.resp.data = <<out.favorite_id>>
              /\ Cardinality(RowsOfPair(favorites, out.user, out.hadith)) = 1

\* C5: two toggles of one pair run one after the other, with no other favorites
\* request on that pair from the arrival of the first to the end of the second,
\* leave the pair as present or absent as it was; and no step changes the
\* presence of a pair unless a favorites request on that very pair takes it.
C5_PairRestored ==
    \A p \in Pairs : mon[p].ph = 4 => (Present(p[1], p[2]) = mon[p].before)

C5_OtherPairsUntouched ==
    \A u \in Users, h \in 1..NumHadiths :
        (Present(u, h) # Present(u, h)') => \E r \in Reqs : OnPair(r, u, h)

C5_TwoTogglesRestore == []C5_PairRestored /\ [][C5_OtherPairsUntouched]_vars

\* C5 witness: a pair that was Present has been toggled twice in a row.
C5_ToggledTwiceFromPresent ==
    \E p \in Pairs : mon[p].ph = 4 /\ mon[p].before


(* ------------------------- hadith queries ----------------------------- *)
\* ILIKE compares without regard to letter case
Fold(c) == CASE c = "A" -> "a" [] c = "B" -> "b" [] c = "C" -> "c" [] OTHER -> c

\* LIKE: % stands for any run of characters, _ for any one character
RECURSIVE LikeMatch(_, _)
LikeMatch(text, pattern) ==
    IF pattern = <<>> THEN text = <<>>
    ELSE IF Head(pattern) = "%"
         THEN LikeMatch(text, Tail(pattern))
              \/ (text # <<>> /\ LikeMatch(Tail(text), pattern))
         ELSE /\ text # <<>>
              /\ Head(pattern) = "_" \/ Fold(Head(pattern)) = Fold(Head(text))
              /\ LikeMatch(Tail(text), Tail(pattern))

\* column.ilike(f"%{s}%")
ILike(t, s) == LikeMatch(Spelling(t), <<"%">> \o s \o <<"%">>)

\* the or_ of build_hadith_query over the five searched columns
SearchCondition(x, s) ==
    \/ ILike(x.english_text, s)
    \/ ILike(x.arabic_text, s)
    \/ ILike(x.narrator, s)
    \/ \E c \in CollectionTable : c.id = x.collection_id /\ ILike(c.name_en, s)
    \/ \E ch \in ChapterTable : ch.id = x.chapter_id /\ ILike(ch.title_en, s)

Matches_AnyGrade(x, filter) ==
    /\ filter.collection_id # None => x.collection_id = filter.collection_id
    /\ filter.chapter_id # None => x.chapter_id = filter.chapter_id
    /\ filter.narrator # <<>> => ILike(x.narrator, filter.narrator)
    /\ filter.q # <<>> => SearchCondition(x, filter.q)

Matches_AnyCriterion(x, filter) ==
    \/ filter = [collection_id |-> None, chapter_id |-> None, grade |-> "",
                 narrator |-> <<>>, q |-> <<>>]
    \/ filter.collection_id # None /\ x.collection_id = filter.collection_id
    \/ filter.chapter_id # None /\ x.chapter_id = filter.chapter_id
    \/ filter.grade # "" /\ x.grade = filter.grade
    \/ filter.narrator # <<>> /\ ILike(x.narrator, filter.narrator)
    \/ filter.q # <<>> /\ SearchCondition(x, filter.q)

\* build_hadith_query: the conditions; a criterion that is None or empty adds none
Matches(x, filter) ==
    /\ filter.collection_id # None => x.collection_id = filter.collection_id
    /\ filter.chapter_id # None => x.chapter_id = filter.chapter_id
    /\ filter.grade # "" => x.grade = filter.grade
    /\ filter.narrator # <<>> => ILike(x.narrator, filter.narrator)
    /\ filter.q # <<>> => SearchCondition(x, filter.q)

OuterJoin_Inner(rows, favs, u) == {x \in rows : RowsOfPair(favs, u, x.id) # {}}

\* .outerjoin(favorites_table, hadith_id == hadiths.id and user_id == user_id,
\* or False for no user): the rows that have a favorites row of the caller, and
\* those that have none
OuterJoin(rows, favs, u) ==
    {x \in rows : RowsOfPair(favs, u, x.id) # {}}
        \cup {x \in rows : RowsOfPair(favs, u, x.id) = {}}

\* build_hadith_query: hadiths joined with their collection and chapter and with
\* the caller's favorites, filtered
BuildHadithQuery(filter, user_id) ==
    {x \in OuterJoin(hadiths, favorites, user_id) :
        /\ \E c \in CollectionTable : c.id = x.collection_id
        /\ \E ch \in ChapterTable : ch.id = x.chapter_id
        /\ Matches(x, filter)}

IsFavorite_OfAnyUser(favs, u, h) ==
    u # Anonymous /\ \E f \in favs : f.hadith_id = h

\* the outer join on favorites (hadith_id, user_id), folded to is_favorite
IsFavorite(favs, u, h) == u # Anonymous /\ RowsOfPair(favs, u, h) # {}

ExcludeFavorites_Off(rows, favs, u, exclude) == rows

\* .where(favorites_table.c.id.is_(None)), applied when exclude_favorites and user_id
ExcludeFavorites(rows, favs, u, exclude) ==
    IF exclude /\ u # Anonymous THEN {x \in rows : ~IsFavorite(favs, u, x.id)} ELSE rows

\* order_by(hadiths_table.c.hadith_number): hadith_number is the only key
ByHadithNumber(rows) == [x \in rows |-> x.hadith_number]

\* fetch_all / fetch_one of order_by(...).limit(limit).offset(offset): the results
\* the store may return
Fetch(rows, key, limit, offset) == {Slice(o, offset, limit) : o \in Orders(rows, key)}

HadithData(s, favs, u) ==
    [Ok(Ids(s)) EXCEPT !.is_favorite = [i \in 1..Len(s) |-> IsFavorite(favs, u, s[i].id)]]

(* ------------------------------ generator ----------------------------- *)
\* datetime.strptime(date_param, "%Y-%m-%d"): ValueError unless a calendar date
IsLeap(y) == y % 4 = 0 /\ (y % 100 # 0 \/ y % 400 = 0)

DaysInMonth(y, m) ==
    IF m = 2 THEN (IF IsLeap(y) THEN 29 ELSE 28)
    ELSE IF m \in {4, 6, 9, 11} THEN 30 ELSE 31

ValidDate_AnyDay(dp) == dp[2] \in 1..12 /\ dp[3] \in 1..31

ValidDate(dp) ==
    /\ dp[2] \in 1..12
    /\ dp[3] \in 1..DaysInMonth(dp[1], dp[2])

RECURSIVE DaysBeforeMonth(_, _)
DaysBeforeMonth(y, m) ==
    IF m = 1 THEN 0 ELSE DaysBeforeMonth(y, m - 1) + DaysInMonth(y, m - 1)

\* date.toordinal(): days since 0001-01-01, which is day 1
ToOrdinal(d) ==
    LET y == d[1] - 1
    IN  y * 365 + (y \div 4) - (y \div 100) + (y \div 400) + DaysBeforeMonth(d[1], d[2]) + d[3]

\* random.seed(n): the generator's state becomes a function of n alone
Seed(n) == n % RngModulus

\* one step of the generator (a full-period congruential step stands for the
\* Mersenne Twister's: what matters is that the next state and the number
\* drawn are functions of the state)
NextRng(s) == (5 * s + 3) % RngModulus

\* random.randint(lo, hi) drawn in state s (after the step)
RandInt(s, lo, hi) == lo + (s % (hi - lo + 1))

(* get_daily_hadith: GET /hadiths/daily *)
DailyBegin(r, u, dp, today) ==
    /\ Free(r)
    /\ LET fields == [Idle EXCEPT !.op = "get_daily_hadith", !.user = u]
       IN  IF dp # NoDate /\ ~ValidDate(dp)
           THEN /\ Finish(r, [fields EXCEPT !.date = dp],
                          HttpError(400, "Invalid date format. Use YYYY-MM-DD"))
                /\ rng' = rng
                /\ seeded_by' = seeded_by
           ELSE LET target_date == IF dp # NoDate THEN dp ELSE today
                IN  /\ rng' = Seed(ToOrdinal(target_date))
                    /\ seeded_by' = target_date
                    /\ Continue(r, [fields EXCEPT !.date = target_date, !.seeded = TRUE,
                                                   !.filter = [NoFilter EXCEPT !.grade = "Sahih"],
                                                   !.pc = "count"])
    /\ UNCHANGED <<hadiths, users, acks, favorites, next_fav_id, mon, scan, daily>>

DailyCount(r) ==
    /\ req[r].op = "get_daily_hadith" /\ req[r].pc = "count"
    /\ LET total_count == Cardinality(BuildHadithQuery(req[r].filter, req[r].user))
       IN  IF total_count = 0
           THEN /\ Finish(r, req[r], HttpError(404, "No hadiths available for daily selection"))
                /\ rng' = rng
                /\ seeded_by' = seeded_by
           ELSE /\ rng' = NextRng(rng)
                /\ seeded_by' = seeded_by
                /\ Continue(r, [req[r] EXCEPT !.total_count = total_count,
                                              !.offset = RandInt(rng', 0, total_count - 1),
                                              !.pc = "fetch"])
    /\ UNCHANGED <<hadiths, users, acks, favorites, next_fav_id, mon, scan, daily>>

DailyFetch(r) ==
    /\ req[r].op = "get_daily_hadith" /\ req[r].pc = "fetch"
    /\ \E hadith \in Fetch(BuildHadithQuery(req[r].filter, req[r].user),
                           ByHadithNumber(BuildHadithQuery(req[r].filter, req[r].user)), 1, req[r].offset) :
          IF hadith = <<>>
          THEN /\ Finish(r, req[r], HttpError(404, "Daily hadith not found"))
               /\ daily' = daily
          ELSE /\ Finish(r, req[r], [HadithData(hadith, favorites, req[r].user)
                                        EXCEPT !.date = req[r].date])
               /\ daily' = [daily EXCEPT ![req[r].date] = @ \cup {hadith[1].id}]
    /\ UNCHANGED <<hadiths, users, acks, favorites, next_fav_id, rng, seeded_by, mon, scan>>

(* get_random_hadith: GET /hadiths/random *)
RandomRows(r) ==
    ExcludeFavorites(BuildHadithQuery(req[r].filter, req[r].user), favorites, req[r].user,
                     req[r].exclude_favorites)

RandomBegin(r, u, collection_id, grade, exclude) ==
    /\ Free(r)
    /\ LET fields == [Idle EXCEPT !.op = "get_random_hadith", !.user = u,
                                  !.filter = [NoFilter EXCEPT !.collection_id = collection_id,
                                                              !.grade = grade],
                                  !.exclude_favorites = exclude]
           rows == ExcludeFavorites(BuildHadithQuery(fields.filter, u), favorites, u, exclude)
           total_count == Cardinality(rows)
       IN  IF total_count = 0
           THEN /\ Finish(r, fields, HttpError(404, "No hadiths found matching criteria"))
                /\ rng' = rng
                /\ seeded_by' = seeded_by
           ELSE /\ rng' = NextRng(rng)
                /\ seeded_by' = seeded_by
                /\ Continue(r, [fields EXCEPT !.total_count = total_count,
                                              !.offset = RandInt(rng', 0, total_count - 1),
                                              !.pc = "fetch"])
    /\ UNCHANGED <<hadiths, users, acks, favorites, next_fav_id, mon, scan, daily>>

RandomFetch(r) ==
    /\ req[r].op = "get_random_hadith" /\ req[r].pc = "fetch"
    /\ \E hadith \in Fetch(RandomRows(r), ByHadithNumber(RandomRows(r)), 1, req[r].offset) :
          IF hadith = <<>>
          THEN Finish(r, req[r], HttpError(404, "Random hadith not found"))
          ELSE Finish(r, req[r], HadithData(hadith, favorites, req[r].user))
    /\ UNCHANGED <<hadiths, users, acks, favorites, next_fav_id, rng, seeded_by, mon, scan, daily>>

(* ------------------------ specification: picks ------------------------ *)
RandomFilters == {<<None, "">>, <<1, "Sahih">>}

\* The data sets a run of picks may start from: those of the listings, and
\* one without any Sahih hadith.
PickDataSets == DataSets \cup {{x \in HadithTable : x.grade # "Sahih"}}

InitPick ==
    /\ hadiths \in PickDataSets
    /\ users = RegisteredUsers
    /\ acks = NoAcks
    /\ favorites = {}
    /\ next_fav_id = 1
    /\ rng \in RngStates
    /\ seeded_by = NoDate
    /\ req = [r \in Reqs |-> Idle]
    /\ out = Idle
    /\ mon = [p \in Pairs |-> NoMon]
    /\ scan = NoScan
    /\ daily = NoDaily

NextPick ==
    \E r \in Reqs :
        \/ \E dp \in DateParams, today \in Dates : DailyBegin(r, Anonymous, dp, today)
        \/ DailyCount(r)
        \/ DailyFetch(r)
        \/ \E f \in RandomFilters : RandomBegin(r, Anonymous, f[1], f[2], FALSE)
        \/ RandomFetch(r)

SpecPick == InitPick /\ [][NextPick]_vars

\* No two eligible (Sahih) hadiths share a hadith_number.
NoTies(rows) == \A x \in rows, y \in rows : x.hadith_number = y.hadith_number => x = y

\* C1: over an unchanged data set, all daily picks for one date return the same
\* hadith id, whatever other daily or random picks the process serves before or
\* meanwhile (stated here for data sets in which ORDER BY hadith_number is total).
C1_DailyPickDeterministic ==
    NoTies(BuildHadithQuery([NoFilter EXCEPT !.grade = "Sahih"], Anonymous)) =>
        \A d \in Dates : Cardinality(daily[d]) <= 1


(* ----------------------------- pagination ----------------------------- *)
ValidPaging_NoUpperLimit(page, page_size) == page >= 1 /\ page_size >= 1

\* Query(1, ge=1) and Query(20, ge=1, le=100): else 422 before the handler runs
ValidPaging(page, page_size) ==
    page >= 1 /\ page_size >= 1 /\ page_size <= MaxPageSizeParam

\* offset = (page - 1) * page_size
PageOffset(page, page_size) == (page - 1) * page_size

\* total_pages = (total_count + page_size - 1) // page_size
TotalPages_Floor(total_count, page_size) == total_count \div page_size

TotalPages(total_count, page_size) == (total_count + page_size - 1) \div page_size

\* has_next = page < total_pages
HasNext(page, total_pages) == page < total_pages

\* has_prev = page > 1
HasPrev_FromFirst(page) == page >= 1

HasPrev(page) == page > 1

PaginationMeta(page, page_size, total_count) ==
    [page |-> page, page_size |-> page_size, total_count |-> total_count,
     total_pages |-> TotalPages(total_count, page_size),
     has_next |-> HasNext(page, TotalPages(total_count, page_size)),
     has_prev |-> HasPrev(page)]

Pages == 0..MaxPage
PageSizes == (0..MaxSmallPageSize) \cup {MaxPageSizeParam, MaxPageSizeParam + 1}

ListOps == {"get_hadiths", "get_hadiths_by_collection", "get_hadiths_by_chapter",
            "get_collections", "get_collection_chapters", "get_user_favorites"}

HadithListOps == {"get_hadiths", "get_hadiths_by_collection", "get_hadiths_by_chapter"}

\* The rows the count and the fetch of a list request range over.
ListRows(q) ==
    CASE q.op \in HadithListOps -> BuildHadithQuery(q.filter, q.user)
      [] q.op = "get_collections" -> CollectionTable
      [] q.op = "get_collection_chapters" ->
            {ch \in ChapterTable : ch.collection_id = q.filter.collection_id}
      [] q.op = "get_user_favorites" ->
            {f \in favorites :
                /\ f.user_id = q.user
                /\ \E x \in hadiths :
                      /\ x.id = f.hadith_id
                      /\ q.filter.collection_id # None => x.collection_id = q.filter.collection_id}

\* The ORDER BY key of a list request: hadith_number, name_en, chapter_number,
\* added_at.  added_at values are not modelled: the favorites come in any order.
ListKey(q) ==
    CASE q.op \in HadithListOps -> ByHadithNumber(ListRows(q))
      [] q.op = "get_collections" -> [c \in ListRows(q) |-> c.name_en]
      [] q.op = "get_collection_chapters" -> [ch \in ListRows(q) |-> ch.chapter_number]
      [] q.op = "get_user_favorites" -> [f \in ListRows(q) |-> 0]

\* History, kept when scan.on: pages 1, 2, ... of one listing, asked one after
\* the other with the same parameters, concatenated; total_count and total_pages
\* are those page 1 came with.
ScanStep(q, data, meta) ==
    IF ~scan.on THEN scan
    ELSE IF q.page = 1
    THEN [on |-> TRUE, active |-> TRUE, op |-> q.op, user |-> q.user, filter |-> q.filter,
          page_size |-> q.page_size, next |-> 2, acc |-> data,
          total_count |-> meta.total_count, total_pages |-> meta.total_pages]
    ELSE IF /\ scan.active /\ scan.op = q.op /\ scan.user = q.user /\ scan.filter = q.filter
            /\ scan.page_size = q.page_size /\ scan.next = q.page
    THEN [scan EXCEPT !.next = @ + 1, !.acc = @ \o data]
    ELSE scan

\* total_count = await database.fetch_val(count_query)
ListCount(r, fields) ==
    Continue(r, [fields EXCEPT !.total_count = Cardinality(ListRows(fields)),
                               !.offset = PageOffset(fields.page, fields.page_size),
                               !.pc = "fetch"])

\* rows = await database.fetch_all(query); meta; return ...Response(data, meta)
ListFetch(r) ==
    \E rows \in Fetch(ListRows(req[r]), ListKey(req[r]), req[r].page_size, req[r].offset) :
        LET meta == PaginationMeta(req[r].page, req[r].page_size, req[r].total_count)
            resp == IF req[r].op \in HadithListOps
                    THEN HadithData(rows, favorites, req[r].user)
                    ELSE Ok(Ids(rows))
        IN  /\ Finish(r, req[r], [resp EXCEPT !.meta = meta])
            /\ scan' = ScanStep(req[r], Ids(rows), meta)

ListRequest(op, u, filter, page, page_size) ==
    [Idle EXCEPT !.op = op, !.user = u, !.filter = filter, !.page = page,
                 !.page_size = page_size]

Invalid(r, fields) ==
    Finish(r, fields, HttpError(422, "validation error"))

(* get_hadiths: GET /hadiths/ *)
GetHadithsBegin(r, u, filter, page, page_size) ==
    /\ Free(r)
    /\ LET fields == ListRequest("get_hadiths", u, filter, page, page_size)
       IN  IF ~ValidPaging(page, page_size) THEN Invalid(r, fields)
           ELSE ListCount(r, fields)
    /\ UNCHANGED <<hadiths, users, acks, favorites, next_fav_id, rng, seeded_by, mon, scan, daily>>

GetHadithsFetch(r) ==
    /\ req[r].op = "get_hadiths" /\ req[r].pc = "fetch"
    /\ ListFetch(r)
    /\ UNCHANGED <<hadiths, users, acks, favorites, next_fav_id, rng, seeded_by, mon, daily>>

(* get_hadith: GET /hadiths/{hadith_id} *)
GetHadith(r, u, hadith_id) ==
    /\ Free(r)
    /\ LET fields == [Idle EXCEPT !.op = "get_hadith", !.user = u, !.hadith = hadith_id]
           found == {x \in BuildHadithQuery(NoFilter, u) : x.id = hadith_id}
       IN  IF found = {} THEN Finish(r, fields, HttpError(404, "Hadith not found"))
           ELSE \E x \in found : Finish(r, fields, HadithData(<<x>>, favorites, u))
    /\ UNCHANGED <<hadiths, users, acks, favorites, next_fav_id, rng, seeded_by, mon, scan, daily>>

CollectionExists_Always(collection_id) == TRUE

\* select(collections_table).where(id == collection_id): a row was found
CollectionExists(collection_id) == \E c \in CollectionTable : c.id = collection_id

(* get_hadiths_by_collection: GET /hadiths/collection/{collection_id} *)
ByCollectionBegin(r, u, collection_id, grade, page, page_size) ==
    /\ Free(r)
    /\ LET fields == ListRequest("get_hadiths_by_collection", u,
                                 [NoFilter EXCEPT !.collection_id = collection_id,
                                                  !.grade = grade], page, page_size)
       IN  IF ~ValidPaging(page, page_size) THEN Invalid(r, fields)
           ELSE IF ~CollectionExists(collection_id)
           THEN Finish(r, fields, HttpError(404, "Collection not found"))
           ELSE Continue(r, [fields EXCEPT !.pc = "count"])
    /\ UNCHANGED <<hadiths, users, acks, favorites, next_fav_id, rng, seeded_by, mon, scan, daily>>

ByCollectionCount(r) ==
    /\ req[r].op = "get_hadiths_by_collection" /\ req[r].pc = "count"
    /\ ListCount(r, req[r])
    /\ UNCHANGED <<hadiths, users, acks, favorites, next_fav_id, rng, seeded_by, mon, scan, daily>>

ByCollectionFetch(r) ==
    /\ req[r].op = "get_hadiths_by_collection" /\ req[r].pc = "fetch"
    /\ ListFetch(r)
    /\ UNCHANGED <<hadiths, users, acks, favorites, next_fav_id, rng, seeded_by, mon, daily>>

(* get_hadiths_by_chapter: GET /hadiths/chapter/{chapter_id} *)
ByChapterBegin(r, u, chapter_id, page, page_size) ==
    /\ Free(r)
    /\ LET fields == ListRequest("get_hadiths_by_chapter", u,
                                 [NoFilter EXCEPT !.chapter_id = chapter_id], page, page_size)
       IN  IF ~ValidPaging(page, page_size) THEN Invalid(r, fields)
           ELSE IF ~\E ch \in ChapterTable : ch.id = chapter_id
           THEN Finish(r, fields, HttpError(404, "Chapter not found"))
           ELSE Continue(r, [fields EXCEPT !.pc = "count"])
    /\ UNCHANGED <<hadiths, users, acks, favorites, next_fav_id, rng, seeded_by, mon, scan, daily>>

ByChapterCount(r) ==
    /\ req[r].op = "get_hadiths_by_chapter" /\ req[r].pc = "count"
    /\ ListCount(r, req[r])
    /\ UNCHANGED <<hadiths, users, acks, favorites, next_fav_id, rng, seeded_by, mon, scan, daily>>

ByChapterFetch(r) ==
    /\ req[r].op = "get_hadiths_by_chapter" /\ req[r].pc = "fetch"
    /\ ListFetch(r)
    /\ UNCHANGED <<hadiths, users, acks, favorites, next_fav_id, rng, seeded_by, mon, daily>>

(* get_collections: GET /collections/ *)
GetCollectionsBegin(r, page, page_size) ==
    /\ Free(r)
    /\ LET fields == ListRequest("get_collections", Anonymous, NoFilter, page, page_size)
       IN  IF ~ValidPaging(page, page_size) THEN Invalid(r, fields)
           ELSE ListCount(r, fields)
    /\ UNCHANGED <<hadiths, users, acks, favorites, next_fav_id, rng, seeded_by, mon, scan, daily>>

GetCollectionsFetch(r) ==
    /\ req[r].op = "get_collections" /\ req[r].pc = "fetch"
    /\ ListFetch(r)
    /\ UNCHANGED <<hadiths, users, acks, favorites, next_fav_id, rng, seeded_by, mon, daily>>

(* get_collection_chapters: GET /collections/{collection_id}/chapters *)
ChaptersBegin(r, collection_id, page, page_size) ==
    /\ Free(r)
    /\ LET fields == ListRequest("get_collection_chapters", Anonymous,
                                 [NoFilter EXCEPT !.collection_id = collection_id],
                                 page, page_size)
       IN  IF ~ValidPaging(page, page_size) THEN Invalid(r, fields)
           ELSE IF ~CollectionExists(collection_id)
           THEN Finish(r, fields, HttpError(404, "Collection not found"))
           ELSE Continue(r, [fields EXCEPT !.pc = "count"])
    /\ UNCHANGED <<hadiths, users, acks, favorites, next_fav_id, rng, seeded_by, mon, scan, daily>>

ChaptersCount(r) ==
    /\ req[r].op = "get_collection_chapters" /\ req[r].pc = "count"
    /\ ListCount(r, req[r])
    /\ UNCHANGED <<hadiths, users, acks, favorites, next_fav_id, rng, seeded_by, mon, scan, daily>>

ChaptersFetch(r) ==
    /\ req[r].op = "get_collection_chapters" /\ req[r].pc = "fetch"
    /\ ListFetch(r)
    /\ UNCHANGED <<hadiths, users, acks, favorites, next_fav_id, rng, seeded_by, mon, daily>>

(* get_user_favorites: GET /favorites/ *)
GetFavoritesBegin(r, u, collection_id, page, page_size) ==
    /\ Free(r)
    /\ LET fields == ListRequest("get_user_favorites", u,
                                 [NoFilter EXCEPT !.collection_id = collection_id],
                                 page, page_size)
       IN  IF ~ValidPaging(page, page_size) THEN Invalid(r, fields)
           ELSE ListCount(r, fields)
    /\ UNCHANGED <<hadiths, users, acks, favorites, next_fav_id, rng, seeded_by, mon, scan, daily>>

GetFavoritesFetch(r) ==
    /\ req[r].op = "get_user_favorites" /\ req[r].pc = "fetch"
    /\ ListFetch(r)
    /\ UNCHANGED <<hadiths, users, acks, favorites, next_fav_id, rng, seeded_by, mon, daily>>

(* ------------------------ specification: lists ------------------------ *)
\* Favorites a run of list requests may start from: the first n rows of a
\* fixed enumeration of the pairs, kept where the hadith is in the data set.
FavoriteRow(i) ==
    [id |-> i, user_id |-> ((i - 1) % NumUsers) + 1, hadith_id |-> ((i - 1) \div NumUsers) + 1,
     notes |-> None]

HadithFilters ==
    {NoFilter, [NoFilter EXCEPT !.grade = "Sahih"],
     [NoFilter EXCEPT !.narrator = <<"B">>],
     [NoFilter EXCEPT !.q = <<"c">>],
     [NoFilter EXCEPT !.chapter_id = 11, !.q = <<"a">>],
     [NoFilter EXCEPT !.grade = "Sahih", !.narrator = <<"B">>, !.q = <<"a", "b">>]}

ListCallers == {<<Anonymous, f>> : f \in HadithFilters}
                 \cup {<<1, [NoFilter EXCEPT !.collection_id = 1]>>}

InitList ==
    /\ hadiths \in DataSets
    /\ users = RegisteredUsers
    /\ acks = NoAcks
    /\ \E n \in {0, MaxFavId} :
          /\ favorites = {f \in {FavoriteRow(i) : i \in 1..n} : HadithExists(f.hadith_id)}
          /\ next_fav_id = n + 1
    /\ rng = 0
    /\ seeded_by = NoDate
    /\ req = [r \in Reqs |-> Idle]
    /\ out = Idle
    /\ mon = [p \in Pairs |-> NoMon]
    /\ scan = NoScan
    /\ daily = NoDaily

NextList ==
    \/ \E page \in Pages, page_size \in PageSizes, c \in ListCallers :
          GetHadithsBegin(1, c[1], c[2], page, page_size)
    \/ GetHadithsFetch(1)
    \/ \E u \in {Anonymous, 1}, h \in {1, NoSuchId} : GetHadith(1, u, h)
    \/ \E page \in Pages, page_size \in PageSizes, c \in {1, NoSuchId} :
          ByCollectionBegin(1, Anonymous, c, "", page, page_size)
    \/ ByCollectionCount(1)
    \/ ByCollectionFetch(1)
    \/ \E page \in Pages, page_size \in PageSizes, ch \in {11, NoSuchId} :
          ByChapterBegin(1, Anonymous, ch, page, page_size)
    \/ ByChapterCount(1)
    \/ ByChapterFetch(1)
    \/ \E page \in Pages, page_size \in PageSizes : GetCollectionsBegin(1, page, page_size)
    \/ GetCollectionsFetch(1)
    \/ \E page \in Pages, page_size \in PageSizes, c \in {1, NoSuchId} :
          ChaptersBegin(1, c, page, page_size)
    \/ ChaptersCount(1)
    \/ ChaptersFetch(1)
    \/ \E page \in Pages, page_size \in PageSizes, u \in Users :
          GetFavoritesBegin(1, u, None, page, page_size)
    \/ GetFavoritesFetch(1)

SpecList == InitList /\ [][NextList]_vars


(* ---------- specification: a client reading a listing page by page ----- *)
InitScan ==
    /\ hadiths \in DataSets
    /\ users = RegisteredUsers
    /\ acks = NoAcks
    /\ \E n \in {0, MaxFavId} :
          /\ favorites = {f \in {FavoriteRow(i) : i \in 1..n} : HadithExists(f.hadith_id)}
          /\ next_fav_id = n + 1
    /\ rng = 0
    /\ seeded_by = NoDate
    /\ req = [r \in Reqs |-> Idle]
    /\ out = Idle
    /\ mon = [p \in Pairs |-> NoMon]
    /\ scan = [NoScan EXCEPT !.on = TRUE]
    /\ daily = NoDaily

NextScan ==
    \/ \E page \in 1..MaxPage, page_size \in 1..MaxSmallPageSize,
             f \in {NoFilter, [NoFilter EXCEPT !.grade = "Sahih"]} :
          GetHadithsBegin(1, Anonymous, f, page, page_size)
    \/ GetHadithsFetch(1)
    \/ \E page \in 1..MaxPage, page_size \in 1..MaxSmallPageSize :
          GetFavoritesBegin(1, 1, None, page, page_size)
    \/ GetFavoritesFetch(1)

SpecScan == InitScan /\ [][NextScan]_vars


(* ------------------------- properties: listings ----------------------- *)
\* A list request has been answered with a page.
ListAnswered == out.op \in ListOps /\ out.pc = "done" /\ out.resp.status = 200

HadithListAnswered == ListAnswered /\ out.op \in HadithListOps

\* The client has read pages 1..total_pages of one listing.
ScanComplete == scan.active /\ scan.next > scan.total_pages

Occurrences(s, v) == Cardinality({i \in 1..Len(s) : s[i] = v})

\* C6: over an unchanged data set, the pages 1..total_pages of a hadith list,
\* concatenated in order, hold every matching hadith exactly once, also when
\* matching hadiths of different collections share a hadith_number.
C6_PagesPartitionListing ==
    (ScanComplete /\ scan.op \in HadithListOps) =>
        \A x \in BuildHadithQuery(scan.filter, scan.user) : Occurrences(scan.acc, x.id) = 1

\* The order the listing is said to have: hadith_number first, then id.
NumberThenId(rows) == [x \in rows |-> x.hadith_number * (NumHadiths + 1) + x.id]

\* C7: every page of a hadith list is the slice, starting at offset
\* (page - 1) * page_size, of the matching rows sorted by hadith_number with
\* ties broken by id.
C7_PageIsSliceOfTotalOrder ==
    HadithListAnswered =>
        \A o \in Orders(BuildHadithQuery(out.filter, out.user), NumberThenId(BuildHadithQuery(out.filter, out.user))) :
            out.resp.data = Ids(Slice(o, (out.page - 1) * out.page_size, out.page_size))

\* C8: over an unchanged data set a page never holds more than page_size rows,
\* and the lengths of pages 1..total_pages add up to total_count.
C8_PageLengthsAddUp ==
    /\ ListAnswered => Len(out.resp.data) <= out.page_size
    /\ ScanComplete => Len(scan.acc) = scan.total_count

\* A listing of several pages, the last one partly filled, read to its end.
C8_ReadListingWithShortLastPage ==
    /\ ScanComplete
    /\ ListAnswered
    /\ scan.total_pages >= 2
    /\ scan.total_count % scan.page_size # 0
    /\ Len(scan.acc) > scan.page_size

\* The least n with n * page_size >= total_count.
Ceiling(total_count, page_size) ==
    CHOOSE n \in 0..total_count :
        /\ n * page_size >= total_count
        /\ \A k \in 0..total_count : k * page_size >= total_count => n <= k

\* C9: on every list endpoint total_pages = ceil(total_count / page_size),
\* has_next = (page < total_pages) and has_prev = (page > 1); an empty listing
\* has total_pages = 0 and has_next = false.
C9_MetadataArithmetic ==
    ListAnswered =>
        /\ out.resp.meta.page = out.page
        /\ out.resp.meta.page_size = out.page_size
        /\ out.resp.meta.total_pages = Ceiling(out.resp.meta.total_count, out.page_size)
        /\ out.resp.meta.has_next = (out.page < out.resp.meta.total_pages)
        /\ out.resp.meta.has_prev = (out.page > 1)
        /\ out.resp.meta.total_count = 0 =>
              (out.resp.meta.total_pages = 0 /\ ~out.resp.meta.has_next)

\* A first page followed by a partly filled last page.
C9_FirstPageBeforeShortLast ==
    /\ ListAnswered
    /\ out.resp.meta.total_count % out.page_size # 0
    /\ out.resp.meta.total_count > out.page_size
    /\ out.resp.meta.has_next

\* A valid request for a page after the last one of an existing listing.
PageBeyondLast ==
    /\ out.op \in ListOps /\ out.pc = "done"
    /\ ValidPaging(out.page, out.page_size)
    /\ out.resp.status # 404
    /\ out.page * out.page_size >= Cardinality(ListRows(out)) + out.page_size

BeyondLastAnswered(has_prev) ==
    /\ out.resp.status = 200
    /\ out.resp.data = <<>>
    /\ out.resp.meta.total_count = Cardinality(ListRows(out))
    /\ out.resp.meta.total_pages = Ceiling(Cardinality(ListRows(out)), out.page_size)
    /\ out.resp.meta.has_next = FALSE
    /\ out.resp.meta.has_prev = has_prev

\* C10 as stated: a page after the last one is answered with success, no rows,
\* the true total_count and total_pages, has_next = false and has_prev = true.
C10_BeyondLastHasPrev == PageBeyondLast => BeyondLastAnswered(TRUE)

\* C10: a page after the last one is answered with success, no rows, the true
\* total_count and total_pages, has_next = false, and has_prev = (page > 1):
\* true except for page 1 of an empty listing.
C10_BeyondLastIsEmptyPage == PageBeyondLast => BeyondLastAnswered(out.page > 1)

\* A page after the last one of a listing that has rows.
C10_AskedPageAfterLast ==
    /\ PageBeyondLast
    /\ Cardinality(ListRows(out)) > 0
    /\ out.resp.meta.has_prev

(* ------------------------ properties: validation ---------------------- *)
\* Query(ge=1) on page, Query(ge=1, le=100) on page_size, as the claim states them.
PagingOutOfRange(page, page_size) == page < 1 \/ page_size < 1 \/ page_size > 100

\* C11: on every list endpoint a request with page_size > 100, page_size < 1 or
\* page < 1 is answered 422 with no page and no metadata, and no list request
\* with such parameters is ever at a store query.
C11_OutOfRangePagingRejected ==
    /\ (out.op \in ListOps /\ out.pc = "done" /\ PagingOutOfRange(out.page, out.page_size)) =>
          /\ out.resp.status = 422
          /\ out.resp.data = <<>>
          /\ out.resp.meta = NoMeta
    /\ \A r \in Reqs :
          (req[r].op \in ListOps /\ Active(r)) => ~PagingOutOfRange(req[r].page, req[r].page_size)

\* A page_size of 101 has been refused on a listing that has rows.
C11_OversizedPageRefused ==
    /\ out.op \in ListOps /\ out.pc = "done"
    /\ out.page >= 1 /\ out.page_size = 101
    /\ out.resp.status = 422
    /\ ListRows(out) # {}

(* ------ specification: picks and listings beside favorites writes ------ *)
\* Slot 1 serves random picks and the favorites listing; slot 2 serves the
\* favorites writes of user 1 that run meanwhile.
InitMix ==
    /\ hadiths = HadithTable
    /\ users = RegisteredUsers
    /\ acks = NoAcks
    /\ \E n \in 0..NumFavHadiths :
          /\ favorites = {FavoriteRow(1 + (i - 1) * NumUsers) : i \in 1..n}
          /\ next_fav_id = 1 + n * NumUsers
    /\ rng \in RngStates
    /\ seeded_by = NoDate
    /\ req = [r \in Reqs |-> Idle]
    /\ out = Idle
    /\ mon = [p \in Pairs |-> NoMon]
    /\ scan = NoScan
    /\ daily = NoDaily

NextMix ==
    \/ \E u \in {Anonymous, 1}, f \in RandomFilters, exclude \in BOOLEAN :
          RandomBegin(1, u, f[1], f[2], exclude)
    \/ RandomFetch(1)
    \/ \E page \in 1..2, page_size \in 1..MaxSmallPageSize :
          GetFavoritesBegin(1, 1, None, page, page_size)
    \/ GetFavoritesFetch(1)
    \/ \E h \in FavTargets : ToggleBegin(2, 1, h)
    \/ ToggleReadExisting(2)
    \/ ToggleDelete(2)
    \/ ToggleInsert(2)
    \/ ToggleFetchCreated(2)
    \/ \E h \in FavTargets : AddBegin(2, 1, h)
    \/ AddReadExisting(2)
    \/ AddInsert(2)
    \/ AddFetchCreated(2)
    \/ \E h \in FavTargets : RemoveByHadithBegin(2, 1, h)
    \/ RemoveByHadithDelete(2)

SpecMix == InitMix /\ [][NextMix]_vars

(* --------------- properties: picks beside favorites writes ------------ *)
\* The hadiths request q may be given: those of its collection and grade, less
\* the caller's favorites when q asks so and has a caller identity.
EligibleFor(q) ==
    {x \in hadiths :
        /\ q.filter.collection_id # None => x.collection_id = q.filter.collection_id
        /\ q.filter.grade # "" => x.grade = q.filter.grade
        /\ (q.exclude_favorites /\ q.user # Anonymous) =>
              ~\E f \in favorites : f.user_id = q.user /\ f.hadith_id = x.id}

\* The same for the request just answered.
EligibleNow == EligibleFor(out)

RandomAnswered == out.op = "get_random_hadith" /\ out.pc = "done"

\* C12: the count of a request and its fetch see the same rows: the
\* total_count a favorites listing returns is the number of rows its fetch
\* ranged over, and so is the count a random pick drew its offset from, also
\* when favorites are added or removed between the two queries.
C12_CountAndFetchSeeSameRows ==
    /\ (out.op = "get_user_favorites" /\ out.pc = "done" /\ out.resp.status = 200) =>
          out.resp.meta.total_count = Cardinality(ListRows(out))
    /\ (RandomAnswered /\ out.total_count > 0) =>
          out.total_count = Cardinality(EligibleNow)

\* Matching hadiths that no favorites request of the run addresses: they are
\* in no user's favorites at any time, hence eligible throughout every request.
AlwaysEligible == {x \in hadiths : Matches(x, out.filter) /\ x.id \notin FavTargets}

\* C13: a random pick over a filter under which some hadith stays eligible
\* throughout the request is answered with one eligible hadith and never with
\* 404, whatever favorites requests run meanwhile.
C13_PickFoundWhileEligible ==
    (RandomAnswered /\ AlwaysEligible # {}) =>
        /\ out.resp.status = 200
        /\ \E x \in EligibleNow : out.resp.data = <<x.id>>

(* ------------------------- properties: picks -------------------------- *)
\* Request r draws the offset of a random pick in this step.
RandomDraws(r) == Free(r) /\ req'[r].op = "get_random_hadith" /\ req'[r].pc = "fetch"

\* C14: a random pick never draws its offset from a generator whose state
\* derives from the date of a daily pick served earlier: whenever a random pick
\* draws, the generator still runs from the entropy the process started with.
C14_RandomDrawNotDateSeeded ==
    [][\A r \in Reqs : RandomDraws(r) => seeded_by = NoDate]_vars

\* C15: no step of a daily pick, random pick or list request changes state the
\* process shares between requests: the generator of module `random`, the only
\* such state besides the store, is left as it was.
C15_RequestsLeaveProcessStateAlone == [][rng' = rng]_vars

DailyAnswered == out.op = "get_daily_hadith" /\ out.pc = "done" /\ out.resp.status # 400

SahihIds == {x.id : x \in {y \in hadiths : y.grade = "Sahih"}}

SahihRows == {x \in hadiths : x.grade = "Sahih"}

\* The first integer in [0, n) a generator seeded with date d's ordinal gives.
FirstDraw(d, n) == RandInt(NextRng(Seed(ToOrdinal(d))), 0, n - 1)

\* C17: the daily pick for date d is the row at offset r of the Sahih hadiths
\* in ascending hadith_number order, r being the first integer in
\* [0, eligible_count) of a generator seeded with d's ordinal; a single
\* eligible hadith is returned for every date; the response carries date d.
C17_DailyPickIsSeededOffset ==
    (DailyAnswered /\ out.resp.status = 200) =>
        /\ out.resp.date = out.date
        /\ out.offset = FirstDraw(out.date, Cardinality(SahihRows))
        /\ \E o \in Orders(SahihRows, [x \in SahihRows |-> x.hadith_number]) :
              out.resp.data = <<o[FirstDraw(out.date, Cardinality(SahihRows)) + 1].id>>
        /\ Cardinality(SahihRows) = 1 => \A x \in SahihRows : out.resp.data = <<x.id>>

\* A daily pick whose date_param is not a calendar date has just been answered.
BadDateAnswered == out.op = "get_daily_hadith" /\ out.pc = "done" /\ out.date = InvalidDate

\* C18: a daily pick whose date_param is not a valid date is answered 400, and
\* the step that answers it queries nothing, seeds nothing and changes nothing:
\* the request never stands at a store query and generator and store are as before.
C18_BadDateAnswers400 == BadDateAnswered => (out.resp.status = 400 /\ ~out.seeded)

C18_BadDateNeverQueries ==
    \A r \in Reqs : (req[r].op = "get_daily_hadith" /\ Active(r)) => req[r].date # InvalidDate

C18_BadDateLeavesNoTrace ==
    BadDateAnswered' =>
        UNCHANGED <<hadiths, users, acks, favorites, next_fav_id, rng, seeded_by, req, daily>>

C18_BadDateRejectedWithoutEffect ==
    /\ [](C18_BadDateAnswers400 /\ C18_BadDateNeverQueries)
    /\ [][C18_BadDateLeavesNoTrace]_vars

\* A date that is no calendar date was refused after a valid one had seeded
\* the generator.
C18_BadDateRefusedAfterSeeding == BadDateAnswered /\ out.resp.status = 400 /\ seeded_by # NoDate

\* C19: the hadith a random pick returns matches its collection_id and grade
\* and, with exclude_favorites and a caller identity, is no favorite of the
\* caller when fetched; the count its offset is drawn from leaves out the
\* caller's favorites in that case and leaves out nothing without an identity.
C19_ReturnedPickEligible ==
    (RandomAnswered /\ out.resp.status = 200) =>
        \E x \in EligibleFor(out) : out.resp.data = <<x.id>>

C19_CountOverEligible ==
    \A r \in Reqs : RandomDraws(r) => req'[r].total_count = Cardinality(EligibleFor(req'[r]))

C19_RandomPickRespectsFilter == []C19_ReturnedPickEligible /\ [][C19_CountOverEligible]_vars

\* A pick that left a favorite of its caller out.
C19_PickedAroundFavorite ==
    /\ RandomAnswered /\ out.resp.status = 200
    /\ out.exclude_favorites /\ out.user # Anonymous
    /\ \E f \in favorites : f.user_id = out.user /\ f.hadith_id \notin {x.id : x \in EligibleFor(out)}

(* ----------------------- properties: add and remove ------------------- *)
RemoveOps == {"remove_favorite", "remove_favorite_by_hadith"}

\* The favorite a remove request q names is there.
RemoveTargetPresent(q) ==
    IF q.op = "remove_favorite"
    THEN \E f \in favorites : f.id = q.favorite_id /\ f.user_id = q.user
    ELSE Present(q.user, q.hadith)

\* An add request that looks for, or inserts, its pair while the pair is Present
\* is answered 400 by that step.
C20_AddOnPresentRefused ==
    \A r \in Reqs :
        (/\ req[r].op = "add_favorite" /\ req[r].pc \in {"read_existing", "insert"}
         /\ req'[r] # req[r]
         /\ Present(req[r].user, req[r].hadith)) =>
            /\ out'.op = "add_favorite" /\ out'.pc = "done"
            /\ out'.resp.status = 400
            /\ out'.resp.error = "Hadith already in favorites"

\* A remove request goes on to its delete only if its favorite is there, and
\* is otherwise answered 404 by its first step.
C20_RemoveOnAbsentRefused ==
    /\ \A r \in Reqs : (Free(r) /\ req'[r].op \in RemoveOps) => RemoveTargetPresent(req'[r])
    /\ (req' = req /\ out'.pc = "done" /\ out'.op \in RemoveOps) =>
          (out'.resp.status = 404 /\ ~RemoveTargetPresent(out'))

\* A step that refuses an add or a remove leaves the favorites as they were.
C20_RefusalChangesNothing ==
    (/\ out'.pc = "done" /\ out'.op \in RemoveOps \cup {"add_favorite"}
     /\ out'.resp.status \in {400, 404}) =>
        UNCHANGED <<favorites, hadiths>>

\* C20: add for a pair that is Present fails with 400 'already in favorites',
\* whether its own lookup or only the uniqueness constraint finds the row;
\* remove by favorite id or by hadith id for an Absent pair fails with 404;
\* and no refused add or remove changes the favorites.
C20_AddRemoveValidateStart ==
    [][C20_AddOnPresentRefused /\ C20_RemoveOnAbsentRefused /\ C20_RefusalChangesNothing]_vars

\* An add passed its own lookup and was refused by the uniqueness constraint.
C20_AddRefusedByConstraint ==
    /\ out.op = "add_favorite" /\ out.pc = "done"
    /\ out.resp.status = 400
    /\ out.existing = None
    /\ Present(out.user, out.hadith)

(* ------------------------------ accounts ------------------------------ *)
\* sqlalchemy.Column("email", sqlalchemy.String, unique=True, nullable=False)
EmailTaken_Off(us, email) == FALSE

EmailTaken(us, email) == \E u \in us : u.email = email

\* autoincrement id of users_table: rows are never deleted
NextUserId(us) == Cardinality(us) + 1

\* authenticate_user(email, password): the rows of the user with that email
\* whose stored hash the password verifies against; none stands for False.
AuthenticateUser(us, email, password) ==
    {u \in us : u.email = email /\ u.hashed_password = Hash(password)}

\* create_access_token(data={"sub": user.email}): the token names the email
AccessToken(user) == user.email

\* AuthResponse(message, data=token_data, user=user_obj)
AuthOk(user) == [Ok(<<user.id>>) EXCEPT !.token = AccessToken(user)]

(* signup: POST /auth/signup *)
SignupBegin(r, email, password) ==
    /\ Free(r)
    /\ LET fields == [Idle EXCEPT !.op = "signup", !.email = email, !.password = password]
       IN  IF \E u \in users : u.email = email
           THEN Finish(r, [fields EXCEPT !.existing = email],
                       HttpError(400, "Email already registered"))
           ELSE Continue(r, [fields EXCEPT !.pc = "insert"])
    /\ UNCHANGED <<hadiths, users, acks, favorites, next_fav_id, rng, seeded_by, mon, scan, daily>>

SignupInsert(r) ==
    /\ req[r].op = "signup" /\ req[r].pc = "insert"
    /\ IF EmailTaken(users, req[r].email)
       THEN /\ users' = users
            /\ Finish(r, req[r], HttpError(400, "Email already registered"))
       ELSE /\ users' = users \cup {UserRow(NextUserId(users), req[r].email,
                                            req[r].password, TRUE)}
            /\ Continue(r, [req[r] EXCEPT !.user = NextUserId(users), !.pc = "fetch_created"])
    /\ UNCHANGED <<hadiths, acks, favorites, next_fav_id, rng, seeded_by, mon, scan, daily>>

SignupFetchCreated(r) ==
    /\ req[r].op = "signup" /\ req[r].pc = "fetch_created"
    /\ LET found == {u \in users : u.id = req[r].user}
       IN  IF found = {} THEN Finish(r, req[r], Unhandled("AttributeError"))
           ELSE \E user \in found : Finish(r, req[r], AuthOk(user))
    /\ UNCHANGED <<hadiths, users, acks, favorites, next_fav_id, rng, seeded_by, mon, scan, daily>>

(* login: POST /auth/login *)
LoginResponse_NoActiveCheck(found) ==
    IF found = {} THEN HttpError(401, "Incorrect email or password")
    ELSE AuthOk(CHOOSE u \in found : TRUE)

\* the answer of login to what authenticate_user returned
LoginResponse(found) ==
    IF found = {} THEN HttpError(401, "Incorrect email or password")
    ELSE LET user == CHOOSE u \in found : TRUE
         IN  IF ~user.is_active THEN HttpError(400, "Inactive user account")
             ELSE AuthOk(user)

Login(r, email, password) ==
    /\ Free(r)
    /\ LET found == AuthenticateUser(users, email, password)
       IN  Finish(r, [Idle EXCEPT !.op = "login", !.email = email, !.password = password],
                  LoginResponse(found))
    /\ UNCHANGED <<hadiths, users, acks, favorites, next_fav_id, rng, seeded_by, mon, scan, daily>>

(* ----------------------- specification: accounts ---------------------- *)
\* The users a run may start from: none, or one account, active or not.
InitAuth ==
    /\ hadiths = HadithTable
    /\ users \in {{}} \cup {{UserRow(1, 1, 1, a)} : a \in BOOLEAN}
    /\ acks = NoAcks
    /\ favorites = {}
    /\ next_fav_id = 1
    /\ rng = 0
    /\ seeded_by = NoDate
    /\ req = [r \in Reqs |-> Idle]
    /\ out = Idle
    /\ mon = [p \in Pairs |-> NoMon]
    /\ scan = NoScan
    /\ daily = NoDaily

NextAuth ==
    \E r \in Reqs :
        \/ \E e \in Emails, p \in Passwords : SignupBegin(r, e, p)
        \/ SignupInsert(r)
        \/ SignupFetchCreated(r)
        \/ \E e \in Emails, p \in Passwords : Login(r, e, p)

SpecAuth == InitAuth /\ [][NextAuth]_vars

(* ------------------------ properties: accounts ------------------------ *)
SignupAnswered == out.op = "signup" /\ out.pc = "done"

\* C21: no two users share an email, whatever signups run or have run; and a
\* signup refused for a registered email, by its own lookup or by the
\* uniqueness constraint, is answered 400 'Email already registered' with no
\* token, and its step creates no user.
C21_EmailsUnique ==
    \A u1 \in users, u2 \in users : u1.email = u2.email => u1 = u2

C21_RefusalHasNoToken ==
    (SignupAnswered /\ out.resp.status # 200) =>
        /\ out.resp.status = 400
        /\ out.resp.error = "Email already registered"
        /\ out.resp.token = None
        /\ \E u \in users : u.email = out.email

C21_SignupOnTakenEmailRefused ==
    /\ \A r \in Reqs :
          (/\ req[r].op = "signup" /\ req[r].pc = "insert" /\ req'[r] # req[r]
           /\ \E u \in users : u.email = req[r].email) =>
              /\ out'.op = "signup" /\ out'.email = req[r].email
              /\ out'.resp.status = 400
              /\ out'.resp.error = "Email already registered"
              /\ out'.resp.token = None
              /\ users' = users
    /\ \A r \in Reqs :
          (Free(r) /\ req'[r].op = "signup") =>
              ~ \E u \in users : u.email = req'[r].email
    /\ (out'.op = "signup" /\ out'.resp.status = 400) => users' = users

C21_DuplicateEmailRefused ==
    /\ [](C21_EmailsUnique /\ C21_RefusalHasNoToken)
    /\ [][C21_SignupOnTakenEmailRefused]_vars

\* A signup passed its own lookup and was refused by the uniqueness constraint.
C21_SignupRefusedByConstraint ==
    /\ SignupAnswered
    /\ out.resp.status = 400
    /\ out.existing = None
    /\ Cardinality(users) >= 1


LoginAnswered == out.op = "login" /\ out.pc = "done"

\* the accounts whose email and password a login presented
Holders(q) == {u \in users : u.email = q.email /\ u.hashed_password = Hash(q.password)}

\* C22: a login with an unregistered email or a wrong password is answered
\* 401 'Incorrect email or password' without a token; correct credentials of
\* an inactive account are answered 400 without a token; a bearer token is
\* issued only for the correct credentials of an active user, and names them.
C22_OnlyActiveCredentialsGetToken ==
    LoginAnswered =>
        /\ Holders(out) = {} =>
              /\ out.resp.status = 401
              /\ out.resp.error = "Incorrect email or password"
              /\ out.resp.token = None
        /\ (\E u \in Holders(out) : ~u.is_active) =>
              /\ out.resp.status = 400
              /\ out.resp.token = None
        /\ out.resp.token # None =>
              /\ out.resp.status = 200
              /\ out.resp.token = out.email
              /\ \E u \in Holders(out) : u.is_active
        /\ (\E u \in Holders(out) : u.is_active) => out.resp.token = out.email

\* The right password of an inactive account was presented and refused.
C22_InactiveAccountRefused ==
    /\ LoginAnswered
    /\ \E u \in Holders(out) : ~u.is_active
    /\ out.resp.status = 400


(* ------------------------ properties: list filter --------------------- *)
\* s occurs in the text t, letter case aside
Contains(t, s) ==
    \E i \in 0..(Len(Spelling(t)) - Len(s)) :
        \A j \in 1..Len(s) : Fold(Spelling(t)[i + j]) = Fold(s[j])

\* x meets every criterion the filter f supplies
Satisfies(x, f) ==
    /\ f.collection_id = None \/ x.collection_id = f.collection_id
    /\ f.chapter_id = None \/ x.chapter_id = f.chapter_id
    /\ f.grade = "" \/ x.grade = f.grade
    /\ f.narrator = <<>> \/ Contains(x.narrator, f.narrator)
    /\ \/ f.q = <<>>
       \/ Contains(x.english_text, f.q)
       \/ Contains(x.arabic_text, f.q)
       \/ Contains(x.narrator, f.q)
       \/ \E c \in CollectionTable : c.id = x.collection_id /\ Contains(c.name_en, f.q)
       \/ \E ch \in ChapterTable : ch.id = x.chapter_id /\ Contains(ch.title_en, f.q)

ById == {"get_hadiths_by_collection", "get_collection_chapters",
         "get_hadiths_by_chapter", "get_hadith"}

\* The row a request names by id is in the store.
TargetExists(q) ==
    CASE q.op \in {"get_hadiths_by_collection", "get_collection_chapters"} ->
            \E c \in CollectionTable : c.id = q.filter.collection_id
      [] q.op = "get_hadiths_by_chapter" ->
            \E ch \in ChapterTable : ch.id = q.filter.chapter_id
      [] q.op = "get_hadith" -> \E x \in hadiths : x.id = q.hadith
      [] OTHER -> TRUE

WellPaged(q) == q.op = "get_hadith" \/ ValidPaging(q.page, q.page_size)

\* C24: a well-formed request for the hadiths of a collection, the chapters
\* of a collection, the hadiths of a chapter, or one hadith, whose id is not
\* in the store, is answered 404 '... not found' with no page; the lookup of
\* the id comes first: no such request ever reaches its count or its fetch.
C24_MissingIdAnswered404 ==
    (out.op \in ById /\ out.pc = "done" /\ WellPaged(out) /\ ~TargetExists(out)) =>
        /\ out.resp.status = 404
        /\ out.resp.error \in {"Collection not found", "Chapter not found", "Hadith not found"}
        /\ out.resp.data = <<>>
        /\ out.resp.meta = NoMeta
        /\ out.total_count = 0

C24_CountAndFetchOnlyOfExisting ==
    \A r \in Reqs : (req[r].op \in ById /\ Active(r)) => TargetExists(req[r])

C24_NotFoundBeforeCountAndFetch ==
    C24_MissingIdAnswered404 /\ C24_CountAndFetchOnlyOfExisting

\* The hadiths of a collection that is not in the store were asked for.
C24_UnknownCollectionAsked ==
    /\ out.op = "get_hadiths_by_collection" /\ out.pc = "done"
    /\ WellPaged(out) /\ ~TargetExists(out)
    /\ out.resp.status = 404
    /\ hadiths # {}


(* ---------------- specification: reads beside a toggle ---------------- *)
\* Anonymous and signed-in callers read hadiths through the four endpoints
\* while user 1 toggles a favorite.
InitFlag ==
    /\ hadiths = HadithTable
    /\ users = RegisteredUsers
    /\ acks = NoAcks
    /\ favorites = {}
    /\ next_fav_id = 1
    /\ rng = 0
    /\ seeded_by = NoDate
    /\ req = [r \in Reqs |-> Idle]
    /\ out = Idle
    /\ mon = [p \in Pairs |-> NoMon]
    /\ scan = NoScan
    /\ daily = NoDaily

NextFlag ==
    \/ \E u \in {Anonymous} \cup Users :
          \/ GetHadithsBegin(1, u, NoFilter, 1, MaxSmallPageSize)
          \/ \E h \in FavTargets : GetHadith(1, u, h)
          \/ \E today \in Dates : DailyBegin(1, u, NoDate, today)
          \/ RandomBegin(1, u, None, "", FALSE)
    \/ GetHadithsFetch(1)
    \/ DailyCount(1)
    \/ DailyFetch(1)
    \/ RandomFetch(1)
    \/ \E h \in FavTargets : ToggleBegin(2, 1, h)
    \/ ToggleReadExisting(2)
    \/ ToggleDelete(2)
    \/ ToggleInsert(2)
    \/ ToggleFetchCreated(2)

SpecFlag == InitFlag /\ [][NextFlag]_vars

(* ---------------------- properties: favorite flag --------------------- *)
HadithOps == HadithListOps \cup {"get_hadith", "get_daily_hadith", "get_random_hadith"}

HadithsAnswered == out.op \in HadithOps /\ out.pc = "done" /\ out.resp.status = 200

\* C25: every hadith the list, by-id, daily and random endpoints return to a
\* signed-in user U carries is_favorite = true exactly when a favorites row
\* (U, hadith) exists at the fetch, and false for an anonymous caller; so a
\* hadith U has toggled on is reported true to U and false to anyone else.
C25_FlagIsCallersOwnFavorite ==
    HadithsAnswered =>
        /\ Len(out.resp.is_favorite) = Len(out.resp.data)
        /\ \A i \in 1..Len(out.resp.data) :
              out.resp.is_favorite[i] =
                  (/\ out.user # Anonymous
                   /\ \E f \in favorites :
                         f.user_id = out.user /\ f.hadith_id = out.resp.data[i])

\* User 1 has toggled a hadith on, and another user is shown it unflagged.
C25_OtherUserSeesUnflagged ==
    /\ HadithsAnswered
    /\ out.user \in Users \ {1}
    /\ \E i \in 1..Len(out.resp.data) :
          /\ Present(1, out.resp.data[i])
          /\ ~out.resp.is_favorite[i]


(* ----------------------- properties: error bodies --------------------- *)
\* C26: every error response (validation, not found, conflict, authentication,
\* store unavailable) carries a body with success = false and a message field.
C26_ErrorBodyHasSuccessAndMessage ==
    (out.pc = "done" /\ out.resp.status >= 400) =>
        {"success", "message"} \subseteq out.resp.body


(* --------------------- favorites by favorite id ----------------------- *)
\* update(favorites_table).where(id == favorite_id).values(notes=notes)
UpdateNotes(favs, id, notes) ==
    {IF f.id = id THEN [f EXCEPT !.notes = notes] ELSE f : f \in favs}

(* get_favorite: GET /favorites/{favorite_id} *)
GetFavorite(r, u, fid) ==
    /\ Free(r)
    /\ LET fields == [Idle EXCEPT !.op = "get_favorite", !.user = u, !.favorite_id = fid]
           favorite == FavoriteWithHadith(favorites, fid, u)
       IN  IF favorite = None
           THEN Finish(r, fields, HttpError(404, "Favorite not found"))
           ELSE Finish(r, fields, Ok(<<favorite>>))
    /\ UNCHANGED <<hadiths, users, acks, favorites, next_fav_id, rng, seeded_by, mon, scan, daily>>

(* update_favorite: PUT /favorites/{favorite_id} *)
UpdateBegin(r, u, fid, notes) ==
    /\ Free(r)
    /\ LET fields == [Idle EXCEPT !.op = "update_favorite", !.user = u, !.favorite_id = fid,
                                  !.notes = notes]
       IN  IF ~\E f \in favorites : f.id = fid /\ f.user_id = u
           THEN Finish(r, fields, HttpError(404, "Favorite not found"))
           ELSE Continue(r, [fields EXCEPT !.existing = fid, !.pc = "update"])
    /\ UNCHANGED <<hadiths, users, acks, favorites, next_fav_id, rng, seeded_by, mon, scan, daily>>

UpdateExecute(r) ==
    /\ req[r].op = "update_favorite" /\ req[r].pc = "update"
    /\ favorites' = UpdateNotes(favorites, req[r].favorite_id, req[r].notes)
    /\ Continue(r, [req[r] EXCEPT !.pc = "fetch_updated"])
    /\ UNCHANGED <<hadiths, users, acks, next_fav_id, rng, seeded_by, mon, scan, daily>>

UpdateFetch(r) ==
    /\ req[r].op = "update_favorite" /\ req[r].pc = "fetch_updated"
    /\ LET body == [success |-> TRUE, message |-> "Favorite updated successfully",
                    data |-> FavoriteWithHadith(favorites, req[r].favorite_id, req[r].user)]
       IN  Finish(r, req[r],
                  IF FavoriteResponseValid(body) THEN Ok(<<body.data>>)
                  ELSE Unhandled("ValidationError"))
    /\ UNCHANGED <<hadiths, users, acks, favorites, next_fav_id, rng, seeded_by, mon, scan, daily>>

(* ------------------ specification: favorites by id -------------------- *)
\* Each user holds one favorite; both users read, annotate, delete and list.
InitOwn ==
    /\ hadiths = HadithTable
    /\ users = RegisteredUsers
    /\ acks = NoAcks
    /\ favorites = {FavoriteRow(i) : i \in 1..NumUsers}
    /\ next_fav_id = NumUsers + 1
    /\ rng = 0
    /\ seeded_by = NoDate
    /\ req = [r \in Reqs |-> Idle]
    /\ out = Idle
    /\ mon = [p \in Pairs |-> NoMon]
    /\ scan = NoScan
    /\ daily = NoDaily

NextOwn ==
    \E r \in Reqs :
        \/ \E u \in Users, fid \in 1..NumUsers : GetFavorite(r, u, fid)
        \/ \E u \in Users, fid \in 1..NumUsers : UpdateBegin(r, u, fid, u)
        \/ UpdateExecute(r)
        \/ UpdateFetch(r)
        \/ \E u \in Users, fid \in 1..NumUsers : RemoveBegin(r, u, fid)
        \/ RemoveDelete(r)
        \/ \E u \in Users : GetFavoritesBegin(r, u, None, 1, MaxSmallPageSize)
        \/ GetFavoritesFetch(r)

SpecOwn == InitOwn /\ [][NextOwn]_vars

(* ------------------- properties: favorites by id ---------------------- *)
ByFavoriteId == {"get_favorite", "update_favorite", "remove_favorite"}

\* C27: a user reads, updates and deletes only their own favorites.  A get,
\* update or delete by favorite id that names another user's favorite is
\* answered 404; no step of a request removes or alters a favorite of a user
\* other than the request's; and a favorites list holds only the caller's rows.
C27_OthersFavoriteAnswered404 ==
    (/\ out.op \in ByFavoriteId /\ out.pc = "done"
     /\ \E f \in favorites : f.id = out.favorite_id /\ f.user_id # out.user) =>
        /\ out.resp.status = 404
        /\ out.resp.error = "Favorite not found"
        /\ out.resp.data = <<>>

C27_ListHoldsOwnRows ==
    (out.op = "get_user_favorites" /\ out.pc = "done" /\ out.resp.status = 200) =>
        \A i \in 1..Len(out.resp.data) :
            \E f \in favorites : f.id = out.resp.data[i] /\ f.user_id = out.user

C27_StepLeavesOthersRows ==
    \A f \in favorites :
        f \notin favorites' =>
            \E r \in Reqs : Active(r) /\ req'[r] # req[r] /\ req[r].user = f.user_id

C27_OnlyOwnFavorites ==
    /\ [](C27_OthersFavoriteAnswered404 /\ C27_ListHoldsOwnRows)
    /\ [][C27_StepLeavesOthersRows]_vars

\* User 1 asked to update user 2's favorite and was refused; the favorite is
\* there with its notes as they were.
C27_UpdateOfOthersRefused ==
    /\ out.op = "update_favorite" /\ out.pc = "done"
    /\ out.resp.status = 404
    /\ \E f \in favorites :
          f.id = out.favorite_id /\ f.user_id # out.user /\ f.notes = None


(* ------------------ specification: counted toggles -------------------- *)
\* Toggles alone, from an empty favorites table, with their acknowledgments
\* counted.
InitTally ==
    /\ hadiths = HadithTable
    /\ users = RegisteredUsers
    /\ acks = [NoAcks EXCEPT !.on = TRUE]
    /\ favorites = {}
    /\ next_fav_id = 1
    /\ rng = 0
    /\ seeded_by = NoDate
    /\ req = [r \in Reqs |-> Idle]
    /\ out = Idle
    /\ mon = [p \in Pairs |-> NoMon]
    /\ scan = NoScan
    /\ daily = NoDaily

SpecTally == InitTally /\ [][NextToggle]_vars

(* --------------------- properties: toggle tally ----------------------- *)
\* C28: for one user and one existing hadith that starts Absent, once every
\* toggle request has completed, the pair is Present exactly when an odd
\* number of them acknowledged a toggle (created or removed): no acknowledged
\* toggle's effect is lost.
C28_PresentIffOddAcknowledged ==
    (\A r \in Reqs : Free(r)) =>
        \A p \in Pairs : Present(p[1], p[2]) = acks.odd[p]


(* --------------------- properties: caller identity -------------------- *)
\* What a request selects, told from its parameters and the hadiths alone.
Listing(q) == {x \in hadiths : Satisfies(x, q.filter)}

\* The pages of ids a store may return for rows at an offset and a limit.
PagesOf(rows, offset, limit) ==
    {Ids(Slice(o, offset, limit)) : o \in Orders(rows, ByHadithNumber(rows))}

SimpleRoutes ==
    << [path |-> <<"api", "v1", "hadiths", "{hadith_id}">>, endpoint |-> "get_hadith"],
       [path |-> <<"api", "v1", "hadiths", "daily">>, endpoint |-> "get_daily_hadith"],
       [path |-> <<"api", "v1", "hadiths", "random">>, endpoint |-> "get_random_hadith"] >>

IsParam(segment) == segment = "{hadith_id}"

\* a route matches a path of as many segments, each equal or a parameter
RouteMatches(route, path) ==
    /\ Len(route.path) = Len(path)
    /\ \A i \in 1..Len(path) : IsParam(route.path[i]) \/ route.path[i] = path[i]

\* the router tries the routes in order and takes the first that matches
FirstMatch(path) ==
    IF \E i \in 1..Len(SimpleRoutes) : RouteMatches(SimpleRoutes[i], path)
    THEN Min({i \in 1..Len(SimpleRoutes) : RouteMatches(SimpleRoutes[i], path)})
    ELSE None

\* hadiths.id is text; the ids of the table written as path segments
IdSegments == <<"1", "2", "3", "4">>

\* WHERE h.id = ?: the rows whose id is the segment
RowsWithId(segment) ==
    {x \in hadiths : x.id <= Len(IdSegments) /\ IdSegments[x.id] = segment}

\* the joins of the three selects: hadiths with their collection and chapter
SimpleJoin ==
    {x \in hadiths :
        /\ \E c \in CollectionTable : c.id = x.collection_id
        /\ \E ch \in ChapterTable : ch.id = x.chapter_id}

\* the responses an endpoint may give to a path
SimpleResponses(endpoint, path) ==
    CASE endpoint = "get_hadith" ->
            IF RowsWithId(path[4]) \cap SimpleJoin = {}
            THEN {HttpError(404, "Hadith not found")}
            ELSE {Ok(<<x.id>>) : x \in RowsWithId(path[4]) \cap SimpleJoin}
      [] endpoint = "get_daily_hadith" ->
            IF SimpleJoin = {}
            THEN {HttpError(500, "Server error: 404: No hadiths found")}
            ELSE {Ok(Ids(s)) : s \in Fetch(SimpleJoin, ByHadithNumber(SimpleJoin), 1, 0)}
      [] endpoint = "get_random_hadith" ->
            IF SimpleJoin = {}
            THEN {HttpError(404, "No hadiths found")}
            ELSE {Ok(<<x.id>>) : x \in SimpleJoin}

(* GET path: the handlers run without awaiting, a request is one step *)
SimpleGet(r, path) ==
    /\ Free(r)
    /\ LET i == FirstMatch(path)
       IN  IF i = None
           THEN Finish(r, [Idle EXCEPT !.op = "not_found", !.path = path],
                       HttpError(404, "Not Found"))
           ELSE \E response \in SimpleResponses(SimpleRoutes[i].endpoint, path) :
                   Finish(r, [Idle EXCEPT !.op = SimpleRoutes[i].endpoint, !.path = path],
                          response)
    /\ UNCHANGED <<hadiths, users, acks, favorites, next_fav_id, rng, seeded_by, mon, scan, daily>>

(* -------------------- specification: simple server -------------------- *)
SimplePaths ==
    {<<"api", "v1", "hadiths", s>> : s \in {"1", "2", "3", "4", "5", "daily", "random"}}
        \cup {<<"api", "v1", "hadiths">>}

\* The sqlite file may hold any of the imported hadiths.
InitSimple ==
    /\ hadiths \in SUBSET HadithTable
    /\ users = {}
    /\ acks = NoAcks
    /\ favorites = {}
    /\ next_fav_id = 1
    /\ rng = 0
    /\ seeded_by = NoDate
    /\ req = [r \in Reqs |-> Idle]
    /\ out = Idle
    /\ mon = [p \in Pairs |-> NoMon]
    /\ scan = NoScan
    /\ daily = NoDaily

NextSimple == \E r \in Reqs, path \in SimplePaths : SimpleGet(r, path)

SpecSimple == InitSimple /\ [][NextSimple]_vars

(* --------------------- properties: simple server ---------------------- *)
\* C30: in the simple server a GET of /api/v1/hadiths/daily (of .../random) is
\* served by the daily (the random) handler, not by the by-id handler with
\* hadith_id = 'daily' ('random'); whenever the store holds a hadith the
\* request returns a hadith, never 404 'Hadith not found'.
C30_DailyAndRandomReachTheirHandlers ==
    /\ (out.pc = "done" /\ out.path = <<"api", "v1", "hadiths", "daily">>) =>
          /\ out.op = "get_daily_hadith"
          /\ hadiths # {} => out.resp.status = 200 /\ Len(out.resp.data) = 1
    /\ (out.pc = "done" /\ out.path = <<"api", "v1", "hadiths", "random">>) =>
          /\ out.op = "get_random_hadith"
          /\ hadiths # {} => out.resp.status = 200 /\ Len(out.resp.data) = 1

=============================================================================
